---- MODULE Spec2Model ----
(***************************************************************************)
(* Storefront backend (src/main.py): the product, coupon and order         *)
(* collections, the checkout computation of create_order, the admin        *)
(* catalog operations, and the read-then-write cart update of add_to_cart. *)
(*                                                                         *)
(* Money is an integer number of minor units (1 = 0.01).  An Optional      *)
(* value is a sequence of length at most one: <<>> is None, <<v>> is v.    *)
(* A string that the code inspects character by character (a coupon code)  *)
(* is a sequence of one-character strings.                                 *)
(***************************************************************************)
EXTENDS Integers, Sequences, FiniteSets, TLC

VARIABLES product, coupon, order, req, resp, checkouts, cart, pc, rd,
          user, otp, now, issued, spent

authVars == <<user, otp, now, issued, spent>>

vars == <<product, coupon, order, req, resp, checkouts, cart, pc, rd, authVars>>

(***************************************************************************)
(* Bounds of the model.                                                    *)
(***************************************************************************)
MaxItems == 2
MaxCoupons == 1
MaxCheckouts == 1
MaxQuantity == 2
MaxCalls == 2
MaxUsers == 2
MaxClock == 6

None == <<>>
Some(v) == <<v>>
Option(S) == {None} \cup {Some(v) : v \in S}

(***************************************************************************)
(* Input domains.                                                          *)
(***************************************************************************)
ObjectIds == {"p1", "p2"}
MalformedId == "zz"
IdStrings == ObjectIds \cup {MalformedId}
Titles == {"Gadget"}
Prices == {100, 200}
SalePrices == {0, 99}
Quantities == {-1} \cup (1..MaxQuantity)
StoredCodes == {<<"s", "v">>, <<"S", "V">>}
SuppliedCodes == {<<>>, <<"s", "v">>, <<"S", "V">>, <<"S", "v">>}
CouponTypes == {"percent", "flat"}
CouponValues == {20, 150}
MinOrders == {0, 100}

CartQuantities == 1..MaxQuantity
Calls == 1..MaxCalls

ADMIN_KEY == "demo-admin-key"
AdminKeys == {ADMIN_KEY, "wrong-key"}

(***************************************************************************)
(* Request bodies.                                                         *)
(***************************************************************************)
SeqsUpTo(S, n) == UNION {[1..k -> S] : k \in 0..n}

CartItem == [product_id : IdStrings, quantity : Quantities]

CheckoutBody == [items : SeqsUpTo(CartItem, MaxItems), coupon : Option(SuppliedCodes)]

ProductBody == [title : Titles, price : Prices, sale_price : Option(SalePrices)]

CouponBody ==
    [code : StoredCodes, type : CouponTypes, value : CouponValues,
     min_order : MinOrders, active : BOOLEAN]

NoBody == [items |-> <<>>, coupon |-> None]

\* The smaller inputs of the runs in which the catalog changes.
StoreCartItem == [product_id : IdStrings, quantity : {1}]

StoreCheckoutBody ==
    [items : SeqsUpTo(StoreCartItem, MaxItems), coupon : Option(SuppliedCodes)]

StoreCouponBody ==
    [code : StoredCodes, type : CouponTypes, value : {20}, min_order : {0},
     active : BOOLEAN]

\* The body of admin_update_product: the fields it sets, each present or not.
UpdateBody ==
    {[price |-> Some(p), sale_price |-> None] : p \in Prices}
        \cup {[price |-> None, sale_price |-> Some(s)] : s \in Option(SalePrices)}

\* Auth inputs.  An email is the sequence of the parts it is put together
\* from; the code of an OTP is one of two six-digit strings.
Phones == {"100", "200"}
Emails == {<<"ann", "@example.com">>, <<"100", "@example.com">>}
OtpCodes == {"000000", "111111"}

RegisterBody == [email : Emails, phone : {None}]

OTPVerify == [phone : Phones, code : OtpCodes, email : Option({<<"ann", "@example.com">>})]

\* The empty user and otp collections, at time 0, nothing issued.
NoAuth ==
    /\ user = <<>>
    /\ otp = [ph \in Phones |-> None]
    /\ now = 0
    /\ issued = [ph \in Phones |-> None]
    /\ spent = [ph \in Phones |-> FALSE]

(***************************************************************************)
(* Utilities.                                                              *)
(***************************************************************************)
\* oid: ObjectId(id_str) succeeds exactly on a well-formed id string.
IsObjectId(id_str) == id_str \in ObjectIds

\* str.upper, character by character.
UpperChar(ch) ==
    CASE ch = "s" -> "S"
      [] ch = "v" -> "V"
      [] OTHER -> ch

Upper(s) == [i \in DOMAIN s |-> UpperChar(s[i])]

\* Python truthiness of an Optional[str] and of an Optional[float].
TruthyStr(o) == o # None /\ o[1] # <<>>
TruthyNum(o) == o # None /\ o[1] # 0

\* round(x, 2) of x = n / 100 minor units, to the nearest minor unit,
\* a tie going to the even one.
Round2(n) ==
    LET q == n \div 100
        r == n % 100
    IN  IF r < 50 THEN q
        ELSE IF r > 50 THEN q + 1
        ELSE IF q % 2 = 0 THEN q ELSE q + 1

Max(a, b) == IF a >= b THEN a ELSE b

(***************************************************************************)
(* Collection lookups.                                                     *)
(***************************************************************************)
\* db["product"].find_one({"_id": id})
find_product(id) == IF id \in DOMAIN product THEN Some(product[id]) ELSE None

\* db["coupon"].find_one({"code": code, "active": True}): the first match.
find_coupon(code) ==
    LET hits == {i \in 1..Len(coupon) : coupon[i].code = code /\ coupon[i].active}
    IN  IF hits = {} THEN None
        ELSE Some(coupon[CHOOSE i \in hits : \A j \in hits : i <= j])

(***************************************************************************)
(* create_order.                                                           *)
(***************************************************************************)
\* prod.get("sale_price") or prod.get("price")
UnitPrice(prod) == IF TruthyNum(prod.sale_price) THEN prod.sale_price[1] ELSE prod.price

OrderItem(it, prod) ==
    [product_id |-> it.product_id, title |-> prod.title,
     price |-> UnitPrice(prod), quantity |-> it.quantity]

\* PriceItems with a missing product skipped instead of ending the call.
RECURSIVE PriceItemsSkip(_, _, _, _)
PriceItemsSkip(items, i, total, order_items) ==
    IF i > Len(items)
    THEN [detail |-> "ok", total |-> total, order_items |-> order_items]
    ELSE IF ~IsObjectId(items[i].product_id)
    THEN [detail |-> "Invalid ID", total |-> total, order_items |-> order_items]
    ELSE IF find_product(items[i].product_id) = None
    THEN PriceItemsSkip(items, i + 1, total, order_items)
    ELSE LET prod == find_product(items[i].product_id)[1]
         IN  PriceItemsSkip(items, i + 1, total + UnitPrice(prod) * items[i].quantity,
                            Append(order_items, OrderItem(items[i], prod)))

\* PriceItems with the quantity left out of the total.
RECURSIVE PriceItemsNoQuantity(_, _, _, _)
PriceItemsNoQuantity(items, i, total, order_items) ==
    IF i > Len(items)
    THEN [detail |-> "ok", total |-> total, order_items |-> order_items]
    ELSE IF ~IsObjectId(items[i].product_id)
    THEN [detail |-> "Invalid ID", total |-> total, order_items |-> order_items]
    ELSE IF find_product(items[i].product_id) = None
    THEN [detail |-> "Product not found", total |-> total, order_items |-> order_items]
    ELSE LET prod == find_product(items[i].product_id)[1]
         IN  PriceItemsNoQuantity(items, i + 1, total + UnitPrice(prod),
                                  Append(order_items, OrderItem(items[i], prod)))

\* The loop over body.items, left to right; it stops at the first item
\* whose id is malformed or whose product is missing.
RECURSIVE PriceItems(_, _, _, _)
PriceItems(items, i, total, order_items) ==
    IF i > Len(items)
    THEN [detail |-> "ok", total |-> total, order_items |-> order_items]
    ELSE IF ~IsObjectId(items[i].product_id)
    THEN [detail |-> "Invalid ID", total |-> total, order_items |-> order_items]
    ELSE IF find_product(items[i].product_id) = None
    THEN [detail |-> "Product not found", total |-> total, order_items |-> order_items]
    ELSE LET prod == find_product(items[i].product_id)[1]
         IN  PriceItems(items, i + 1, total + UnitPrice(prod) * items[i].quantity,
                        Append(order_items, OrderItem(items[i], prod)))

\* ApplyCoupon with a percent coupon taken off twice.
ApplyCouponTwice(total, code) ==
    LET c == IF TruthyStr(code) THEN find_coupon(Upper(code[1])) ELSE None
    IN  IF c # None /\ total >= c[1].min_order
        THEN [total100 |-> IF c[1].type = "percent"
                           THEN Max(0, (total * (100 - c[1].value) * (100 - c[1].value))
                                           \div 100)
                           ELSE Max(0, (total - 2 * c[1].value) * 100),
              applied_coupon |-> Some(c[1].code)]
        ELSE [total100 |-> total * 100, applied_coupon |-> None]

\* The coupon block: the total in hundredths of a minor unit, and the
\* applied coupon code.
ApplyCoupon(total, code) ==
    LET c == IF TruthyStr(code) THEN find_coupon(Upper(code[1])) ELSE None
    IN  IF c # None /\ total >= c[1].min_order
        THEN [total100 |-> IF c[1].type = "percent"
                           THEN Max(0, total * (100 - c[1].value))
                           ELSE Max(0, (total - c[1].value) * 100),
              applied_coupon |-> Some(c[1].code)]
        ELSE [total100 |-> total * 100, applied_coupon |-> None]

\* The order document: the fields the checkout computes.  The user id, the
\* address, the item image, the random payment_order_id and the timestamps
\* are copied or generated and take no part in the computation.
OrderDoc(order_items, disc) ==
    [items |-> order_items, amount |-> Round2(disc.total100), currency |-> "INR",
     status |-> "pending", coupon |-> disc.applied_coupon]

Response(op, status, detail, amount) ==
    [op |-> op, status |-> status, detail |-> detail, amount |-> amount]

\* create_order with the total carried over from the order placed before.
create_order_carry(body) ==
    /\ LET start == IF order = <<>> THEN 0 ELSE order[Len(order)].amount
           priced == PriceItems(body.items, 1, start, <<>>)
           disc == ApplyCoupon(priced.total, body.coupon)
           doc == OrderDoc(priced.order_items, disc)
       IN  IF priced.detail # "ok"
           THEN /\ resp' = Response("create_order", 400, priced.detail, 0)
                /\ order' = order
           ELSE /\ resp' = Response("create_order", 200, "ok", doc.amount)
                /\ order' = Append(order, doc)
    /\ req' = body
    /\ checkouts' = checkouts + 1
    /\ UNCHANGED <<product, coupon, cart, pc, rd, authVars>>

create_order(body) ==
    /\ LET priced == PriceItems(body.items, 1, 0, <<>>)
           disc == ApplyCoupon(priced.total, body.coupon)
           doc == OrderDoc(priced.order_items, disc)
       IN  IF priced.detail # "ok"
           THEN /\ resp' = Response("create_order", 400, priced.detail, 0)
                /\ order' = order
           ELSE /\ resp' = Response("create_order", 200, "ok", doc.amount)
                /\ order' = Append(order, doc)
    /\ req' = body
    /\ checkouts' = checkouts + 1
    /\ UNCHANGED <<product, coupon, cart, pc, rd, authVars>>

(***************************************************************************)
(* Admin: products and coupons.                                            *)
(***************************************************************************)
Unauthorized ==
    /\ resp' = Response("admin", 401, "Unauthorized", 0)
    /\ req' = NoBody
    /\ UNCHANGED <<product, coupon, order, checkouts, cart, pc, rd, authVars>>

\* insert_one gives the document an id no document of the collection has.
admin_create_product(body, x_admin_key) ==
    IF x_admin_key # ADMIN_KEY THEN Unauthorized
    ELSE \E id \in ObjectIds \ DOMAIN product :
            /\ product' = [x \in DOMAIN product \cup {id} |->
                              IF x = id THEN body ELSE product[x]]
            /\ resp' = Response("admin", 200, "ok", 0)
            /\ req' = NoBody
            /\ UNCHANGED <<coupon, order, checkouts, cart, pc, rd, authVars>>

\* {"$set": body} on the product with that id, if there is one.
SetFields(doc, body) ==
    [doc EXCEPT !.price = IF body.price # None THEN body.price[1] ELSE @,
                !.sale_price = IF body.sale_price # None THEN body.sale_price[1] ELSE @]

\* admin_update_product with the new price written into stored orders too.
admin_update_product_cascade(pid, body, x_admin_key) ==
    IF x_admin_key # ADMIN_KEY THEN Unauthorized
    ELSE /\ IF ~IsObjectId(pid)
            THEN /\ resp' = Response("admin", 400, "Invalid ID", 0)
                 /\ product' = product
                 /\ order' = order
            ELSE /\ resp' = Response("admin", 200, "ok", 0)
                 /\ product' = [x \in DOMAIN product |->
                                   IF x = pid THEN SetFields(product[x], body)
                                   ELSE product[x]]
                 /\ order' = [k \in DOMAIN order |->
                                 [order[k] EXCEPT !.items =
                                     [j \in DOMAIN @ |->
                                         IF @[j].product_id = pid /\ pid \in DOMAIN product
                                         THEN [@[j] EXCEPT !.price =
                                                  UnitPrice(SetFields(product[pid], body))]
                                         ELSE @[j]]]]
         /\ req' = NoBody
         /\ UNCHANGED <<coupon, checkouts, cart, pc, rd, authVars>>

admin_update_product(pid, body, x_admin_key) ==
    IF x_admin_key # ADMIN_KEY THEN Unauthorized
    ELSE /\ IF ~IsObjectId(pid)
            THEN /\ resp' = Response("admin", 400, "Invalid ID", 0)
                 /\ product' = product
            ELSE /\ resp' = Response("admin", 200, "ok", 0)
                 /\ product' = [x \in DOMAIN product |->
                                   IF x = pid THEN SetFields(product[x], body)
                                   ELSE product[x]]
         /\ req' = NoBody
         /\ UNCHANGED <<coupon, order, checkouts, cart, pc, rd, authVars>>

admin_delete_product(pid, x_admin_key) ==
    IF x_admin_key # ADMIN_KEY THEN Unauthorized
    ELSE /\ IF ~IsObjectId(pid)
            THEN /\ resp' = Response("admin", 400, "Invalid ID", 0)
                 /\ product' = product
            ELSE /\ resp' = Response("admin", 200, "ok", 0)
                 /\ product' = [x \in DOMAIN product \ {pid} |-> product[x]]
         /\ req' = NoBody
         /\ UNCHANGED <<coupon, order, checkouts, cart, pc, rd, authVars>>

\* The coupon document is the body as supplied.
admin_add_coupon(body, x_admin_key) ==
    IF x_admin_key # ADMIN_KEY THEN Unauthorized
    ELSE /\ Len(coupon) < MaxCoupons
         /\ coupon' = Append(coupon, body)
         /\ resp' = Response("admin", 200, "ok", 0)
         /\ req' = NoBody
         /\ UNCHANGED <<product, order, checkouts, cart, pc, rd, authVars>>

get_coupon(code) ==
    /\ resp' = IF find_coupon(Upper(code)) = None
               THEN Response("get_coupon", 404, "Invalid coupon", 0)
               ELSE Response("get_coupon", 200, "ok", 0)
    /\ req' = [items |-> <<>>, coupon |-> Some(code)]
    /\ UNCHANGED <<product, coupon, order, checkouts, cart, pc, rd, authVars>>

(***************************************************************************)
(* The checkout computation over any catalog and coupon collection.        *)
(***************************************************************************)
ProductStores == UNION {[ids -> ProductBody] : ids \in SUBSET ObjectIds}

CouponStores == SeqsUpTo(CouponBody, MaxCoupons)

Init ==
    /\ product \in ProductStores
    /\ coupon \in CouponStores
    /\ order = <<>>
    /\ req = NoBody
    /\ resp = Response("none", 0, "", 0)
    /\ checkouts = 0
    /\ cart = <<>>
    /\ pc = <<>>
    /\ rd = <<>>
    /\ NoAuth

Next == checkouts < MaxCheckouts /\ \E body \in CheckoutBody : create_order(body)

Spec == Init /\ [][Next]_vars

(***************************************************************************)
(* The store from the empty database on: catalog and coupon changes        *)
(* around a checkout.                                                      *)
(***************************************************************************)
InitStore ==
    /\ product = <<>>
    /\ coupon = <<>>
    /\ order = <<>>
    /\ req = NoBody
    /\ resp = Response("none", 0, "", 0)
    /\ checkouts = 0
    /\ cart = <<>>
    /\ pc = <<>>
    /\ rd = <<>>
    /\ NoAuth

NextStore ==
    \/ \E body \in ProductBody, k \in AdminKeys : admin_create_product(body, k)
    \/ \E pid \in IdStrings, body \in UpdateBody, k \in AdminKeys :
          admin_update_product(pid, body, k)
    \/ \E pid \in IdStrings, k \in AdminKeys : admin_delete_product(pid, k)
    \/ \E body \in StoreCouponBody, k \in AdminKeys : admin_add_coupon(body, k)
    \/ \E code \in SuppliedCodes : get_coupon(code)
    \/ checkouts < MaxCheckouts /\ \E body \in StoreCheckoutBody : create_order(body)

SpecStore == InitStore /\ [][NextStore]_vars

(***************************************************************************)
(* The same checkout made twice.                                           *)
(***************************************************************************)
NextRepeat ==
    \/ checkouts < MaxCheckouts /\ \E body \in CheckoutBody : create_order(body)
    \/ checkouts = MaxCheckouts /\ create_order(req)

SpecRepeat == Init /\ [][NextRepeat]_vars

(***************************************************************************)
(* add_to_cart: concurrent calls for one user.  Each call reads the cart   *)
(* document, changes its own copy of the items list, and then writes the   *)
(* whole list back.                                                        *)
(***************************************************************************)
CartAddItem == [product_id : ObjectIds, quantity : CartQuantities]

NoItem == [product_id |-> "", quantity |-> 0]

\* The loop over items: add to the first entry of the product, or append.
AddItem(items, item) ==
    LET hits == {i \in 1..Len(items) : items[i].product_id = item.product_id}
    IN  IF hits = {} THEN Append(items, item)
        ELSE LET k == CHOOSE i \in hits : \A j \in hits : i <= j
             IN  [items EXCEPT ![k].quantity = @ + item.quantity]

\* find_one and the change of the local list.
add_to_cart_read(c, item) ==
    /\ pc[c] = "idle"
    /\ rd' = [rd EXCEPT ![c] = [item |-> item, items |-> AddItem(cart, item)]]
    /\ pc' = [pc EXCEPT ![c] = "read"]
    /\ UNCHANGED <<product, coupon, order, req, resp, checkouts, cart, authVars>>

\* update_one(..., {"$set": {"items": items}}, upsert=True)
add_to_cart_write(c) ==
    /\ pc[c] = "read"
    /\ cart' = rd[c].items
    /\ pc' = [pc EXCEPT ![c] = "done"]
    /\ UNCHANGED <<product, coupon, order, req, resp, checkouts, rd, authVars>>

InitCart ==
    /\ product = <<>>
    /\ coupon = <<>>
    /\ order = <<>>
    /\ req = NoBody
    /\ resp = Response("none", 0, "", 0)
    /\ checkouts = 0
    /\ cart = <<>>
    /\ pc = [c \in Calls |-> "idle"]
    /\ rd = [c \in Calls |-> [item |-> NoItem, items |-> <<>>]]
    /\ NoAuth

NextCart ==
    \/ \E c \in Calls, item \in CartAddItem : add_to_cart_read(c, item)
    \/ \E c \in Calls : add_to_cart_write(c)

SpecCart == InitCart /\ [][NextCart]_vars

(***************************************************************************)
(* Auth: register, request_otp and verify_otp, each call atomic, and the   *)
(* clock.  Time is in minutes.  issued and spent are history: the code and *)
(* time of the latest request_otp of a phone, and whether a verify_otp has *)
(* succeeded for the phone since.  The name and the password hash of a     *)
(* user take no part in either check and are left out.                     *)
(***************************************************************************)
OTP_TTL == 5

othersThanAuth == <<product, coupon, order, checkouts, cart, pc, rd>>

register(body) ==
    /\ IF \E i \in 1..Len(user) : user[i].email = body.email
       THEN /\ resp' = Response("register", 400, "Email already registered", 0)
            /\ user' = user
       ELSE /\ Len(user) < MaxUsers
            /\ user' = Append(user, [email |-> body.email, phone |-> body.phone])
            /\ resp' = Response("register", 200, "ok", 0)
    /\ req' = body
    /\ UNCHANGED <<otp, now, issued, spent, othersThanAuth>>

\* The code is random; the upsert replaces the code and the expiry of the
\* phone's one otp document.
request_otp(body) ==
    /\ \E code \in OtpCodes :
          /\ otp' = [otp EXCEPT ![body.phone] =
                        Some([code |-> code, expires_at |-> now + OTP_TTL])]
          /\ issued' = [issued EXCEPT ![body.phone] = Some([code |-> code, at |-> now])]
    /\ spent' = [spent EXCEPT ![body.phone] = FALSE]
    /\ resp' = Response("request_otp", 200, "OTP sent (demo)", 0)
    /\ req' = body
    /\ UNCHANGED <<user, now, othersThanAuth>>

\* body.email or f"{body.phone}@example.com"
UserEmail(body) ==
    IF TruthyStr(body.email) THEN body.email[1] ELSE <<body.phone, "@example.com">>

\* verify_otp with the otp document left in place.
verify_otp_keep(body) ==
    /\ IF \/ otp[body.phone] = None
          \/ otp[body.phone][1].code # body.code
          \/ otp[body.phone][1].expires_at < now
       THEN /\ resp' = Response("verify_otp", 400, "Invalid or expired OTP", 0)
            /\ UNCHANGED <<user, otp, spent>>
       ELSE /\ IF \E i \in 1..Len(user) : user[i].phone = Some(body.phone)
               THEN user' = user
               ELSE /\ Len(user) < MaxUsers
                    /\ user' = Append(user, [email |-> UserEmail(body),
                                             phone |-> Some(body.phone)])
            /\ otp' = otp
            /\ spent' = [spent EXCEPT ![body.phone] = TRUE]
            /\ resp' = Response("verify_otp", 200, "ok", 0)
    /\ req' = body
    /\ UNCHANGED <<now, issued, othersThanAuth>>

verify_otp(body) ==
    /\ IF \/ otp[body.phone] = None
          \/ otp[body.phone][1].code # body.code
          \/ otp[body.phone][1].expires_at < now
       THEN /\ resp' = Response("verify_otp", 400, "Invalid or expired OTP", 0)
            /\ UNCHANGED <<user, otp, spent>>
       ELSE /\ IF \E i \in 1..Len(user) : user[i].phone = Some(body.phone)
               THEN user' = user
               ELSE /\ Len(user) < MaxUsers
                    /\ user' = Append(user, [email |-> UserEmail(body),
                                             phone |-> Some(body.phone)])
            /\ otp' = [otp EXCEPT ![body.phone] = None]
            /\ spent' = [spent EXCEPT ![body.phone] = TRUE]
            /\ resp' = Response("verify_otp", 200, "ok", 0)
    /\ req' = body
    /\ UNCHANGED <<now, issued, othersThanAuth>>

\* A minute passes.
Tick ==
    /\ now < MaxClock
    /\ now' = now + 1
    /\ UNCHANGED <<user, otp, issued, spent, req, resp, othersThanAuth>>

InitAuth ==
    /\ product = <<>>
    /\ coupon = <<>>
    /\ order = <<>>
    /\ req = NoBody
    /\ resp = Response("none", 0, "", 0)
    /\ checkouts = 0
    /\ cart = <<>>
    /\ pc = <<>>
    /\ rd = <<>>
    /\ user = <<>>
    /\ otp = [ph \in Phones |-> None]
    /\ now = 0
    /\ issued = [ph \in Phones |-> None]
    /\ spent = [ph \in Phones |-> FALSE]

NextAuth ==
    \/ \E body \in RegisterBody : register(body)
    \/ \E body \in [phone : Phones] : request_otp(body)
    \/ \E body \in OTPVerify : verify_otp(body)
    \/ Tick

SpecAuth == InitAuth /\ [][NextAuth]_vars

(***************************************************************************)
(* Properties.                                                             *)
(***************************************************************************)
Placed == resp.op = "create_order" /\ resp.status = 200
LastOrder == order[Len(order)]

RECURSIVE SumLines(_)
SumLines(lines) ==
    IF lines = <<>> THEN 0
    ELSE lines[1].price * lines[1].quantity + SumLines(Tail(lines))

Exists(it) == IsObjectId(it.product_id) /\ it.product_id \in DOMAIN product
HasMissingProduct(items) == \E i \in 1..Len(items) : ~Exists(items[i])
FirstMissing(items) ==
    CHOOSE i \in 1..Len(items) :
        ~Exists(items[i]) /\ \A j \in 1..(i - 1) : Exists(items[j])
CheckoutStep == checkouts' = checkouts + 1

\* C1: the amount of every accepted order, as stored and as returned, is
\* not negative.
C1_AmountNonNegative == Placed => resp.amount >= 0 /\ LastOrder.amount >= 0

\* C2, as stated: a create_order call with an item whose product does not
\* exist fails with "Product not found" and leaves the order collection as
\* it was.
C2_MissingProductNotFound ==
    [][(CheckoutStep /\ HasMissingProduct(req'.items))
          => /\ resp'.status = 400
             /\ resp'.detail = "Product not found"
             /\ order' = order]_vars

\* C2, amended: a create_order call with an item whose product does not
\* exist fails and leaves the order collection as it was; the error is
\* "Invalid ID" when the first such item carries a malformed id and
\* "Product not found" otherwise.
C2_MissingProductFails ==
    [][(CheckoutStep /\ HasMissingProduct(req'.items))
          => /\ resp'.status = 400
             /\ resp'.detail =
                   IF IsObjectId(req'.items[FirstMissing(req'.items)].product_id)
                   THEN "Product not found" ELSE "Invalid ID"
             /\ order' = order]_vars

\* A failed checkout whose second item is the missing one.
C2_Witness ==
    /\ resp.op = "create_order"
    /\ resp.status = 400
    /\ resp.detail = "Product not found"
    /\ Len(req.items) = 2
    /\ Exists(req.items[1])
    /\ ~Exists(req.items[2])
    /\ order = <<>>

\* C3: the unit price recorded for a line is the product's sale_price
\* whenever that is not null, a sale_price of 0 included, and the product's
\* price otherwise.
C3_UnitPriceIsSalePrice ==
    Placed =>
        \A i \in 1..Len(req.items) :
            LET prod == product[req.items[i].product_id]
            IN  LastOrder.items[i].price =
                    IF prod.sale_price # None THEN prod.sale_price[1] ELSE prod.price

\* C4: a stored active coupon is found under every casing of its code, by
\* get_coupon and by create_order.
SameUpToCase(a, b) == Upper(a) = Upper(b)

C4_CouponCaseInsensitive ==
    /\ (resp.op = "get_coupon"
          /\ \E i \in 1..Len(coupon) :
                coupon[i].active /\ SameUpToCase(coupon[i].code, req.coupon[1]))
       => resp.status = 200
    /\ (Placed /\ req.coupon # None
          /\ \E i \in 1..Len(coupon) :
                /\ coupon[i].active
                /\ SameUpToCase(coupon[i].code, req.coupon[1])
                /\ SumLines(LastOrder.items) >= coupon[i].min_order)
       => LastOrder.coupon # None

\* C5: a coupon code supplied to create_order is applied if and only if a
\* coupon with that code exists, is active and has min_order <= subtotal;
\* otherwise the order is placed with the undiscounted subtotal and no
\* coupon.
C5_CouponAppliesIff ==
    Placed =>
        LET subtotal == SumLines(LastOrder.items)
            eligible ==
                /\ req.coupon # None
                /\ \E i \in 1..Len(coupon) :
                      /\ SameUpToCase(coupon[i].code, req.coupon[1])
                      /\ coupon[i].active
                      /\ subtotal >= coupon[i].min_order
        IN  /\ LastOrder.coupon # None <=> eligible
            /\ LastOrder.coupon = None => LastOrder.amount = subtotal

\* C6: with no coupon code and a non-empty item list whose products all
\* exist, the amount is the sum over the request's items of unit price
\* times quantity, and the order has no coupon.
C6_NoCouponAmountIsSum ==
    (Placed /\ req.items # <<>> /\ req.coupon = None) =>
        /\ Len(LastOrder.items) = Len(req.items)
        /\ \A i \in 1..Len(req.items) :
              /\ LastOrder.items[i].quantity = req.items[i].quantity
              /\ LastOrder.items[i].price
                    \in {product[req.items[i].product_id].price}
                            \cup {s[1] : s \in {product[req.items[i].product_id].sale_price}
                                                  \ {None}}
        /\ LastOrder.amount = SumLines(LastOrder.items)
        /\ resp.amount = LastOrder.amount
        /\ LastOrder.coupon = None

\* Two lines of different quantities, no coupon.
C6_Witness ==
    /\ Placed
    /\ req.coupon = None
    /\ Len(req.items) = 2
    /\ req.items[1].quantity = 2
    /\ req.items[2].quantity = 1
    /\ LastOrder.amount = 2 * LastOrder.items[1].price + LastOrder.items[2].price
    /\ LastOrder.amount > 0

\* C7: no step changes the amount, the items or the coupon of an order
\* that is already stored.
C7_StoredOrdersKept ==
    [][\A i \in 1..Len(order) :
          /\ i <= Len(order')
          /\ order'[i].amount = order[i].amount
          /\ order'[i].items = order[i].items
          /\ order'[i].coupon = order[i].coupon]_vars

\* An order whose product has since been given another price.
C7_Witness ==
    /\ Len(order) = 1
    /\ resp.op = "admin"
    /\ order[1].items # <<>>
    /\ order[1].items[1].product_id \in DOMAIN product
    /\ order[1].items[1].price = 100
    /\ product[order[1].items[1].product_id].price = 200
    /\ product[order[1].items[1].product_id].sale_price = None

\* The total after one application of coupon c, in hundredths of a minor
\* unit.
Discounted(subtotal, c) ==
    IF c.type = "percent"
    THEN Max(0, subtotal * (100 - c.value))
    ELSE Max(0, (subtotal - c.value) * 100)

RECURSIVE QuantityIn(_, _)
QuantityIn(items, p) ==
    IF items = <<>> THEN 0
    ELSE (IF items[1].product_id = p THEN items[1].quantity ELSE 0)
            + QuantityIn(Tail(items), p)

RECURSIVE AddedBy(_, _)
AddedBy(n, p) ==
    IF n = 0 THEN 0
    ELSE (IF rd[n].item.product_id = p THEN rd[n].item.quantity ELSE 0)
            + AddedBy(n - 1, p)

C10_NoLostAddition ==
    (DOMAIN pc # {} /\ \A c \in DOMAIN pc : pc[c] = "done") =>
        \A p \in ObjectIds : QuantityIn(cart, p) = AddedBy(MaxCalls, p)

\* C11: no two user documents have the same email.
C11_UniqueEmails ==
    \A i, j \in 1..Len(user) : i # j => user[i].email # user[j].email

\* C12: a verify_otp call succeeds only with the code of the latest
\* request_otp of its phone, not after that code's expiry, and only if no
\* verify_otp has succeeded for the phone since that request_otp.
VerifyStep == resp'.op = "verify_otp" /\ now' = now

C12_OtpSingleUseTimeLimited ==
    [][(VerifyStep /\ resp'.status = 200) =>
          /\ issued[req'.phone] # None
          /\ req'.code = issued[req'.phone][1].code
          /\ now <= issued[req'.phone][1].at + OTP_TTL
          /\ ~spent[req'.phone]]_vars

\* A second verify_otp with the right code, in time, refused after the
\* first one succeeded.
C12_Witness ==
    /\ resp.op = "verify_otp"
    /\ resp.status = 400
    /\ spent[req.phone]
    /\ issued[req.phone] # None
    /\ req.code = issued[req.phone][1].code
    /\ now <= issued[req.phone][1].at + OTP_TTL

====
